---- MODULE Spec2Model ----
(***************************************************************************)
(* Model of connectordb.logger.Logger (src/connectordb/logger.py): the     *)
(* sqlite-backed datapoint cache, insert(), the sync() cycle with its      *)
(* failure callback, the timer that re-runs sync(), the constructor and    *)
(* the configuration properties kept in the metadata row.                  *)
(*                                                                         *)
(* Threads: "main" is an application thread calling sync(), start() and    *)
(* stop(); "timer" is the threading.Timer thread running __runsyncer.      *)
(* insert() and addStream_force() are single sqlite statements issued by   *)
(* application threads; they take no lock and interleave with every step   *)
(* of a sync cycle.  `now` is the last value time.time() returned: the     *)
(* clock never goes back, and the next reader gets the same value again    *)
(* or a later one.                                                         *)
(***************************************************************************)
EXTENDS Integers, Sequences, FiniteSets, TLC

\* ------------------------------------------------------------------ bounds
MaxPoints == 2      \* accepted insert() calls in one behaviour
MaxClock == 2       \* largest value time.time() returns
MaxTimerPoints == 1 \* accepted insert() calls while the timer is in use

\* --------------------------------------------------------------- universes
StreamNames == {"a", "b", "c"}
\* {"type": "number"}, {"type": "string"} and None
Schemas == {"number", "string", "null"}
Values == {"5", "bad"}              \* the number 5 and the string "bad"
Threads == {"main", "timer"}
NoStream == "-"
Periods == {600, 60}                \* values written to syncperiod
DefaultPeriod == 600                \* metadata.syncperiod of a new store
Victim == "a"                       \* the stream other clients delete
CONNECTORDB_URL == "https://connectordb.com"
Urls == {CONNECTORDB_URL, "http://localhost:8000"}
NoKey == "None"                     \* the argument apikey=None
Keys == {"", "k1", "k2"}            \* credentials; '' is that of a new store
\* user data: the dicts {} and {"hi": 56}
UserData == {"dict()", "dict(hi=56)"}

\* json.dumps(value): the text written for a schema or for user data
json_dumps(value) ==
    CASE value = "number" -> "{\"type\": \"number\"}"
      [] value = "string" -> "{\"type\": \"string\"}"
      [] value = "null" -> "null"
      [] value = "dict()" -> "{}"
      [] value = "dict(hi=56)" -> "{\"hi\": 56}"

\* json.loads(text): the value a stored text stands for
json_loads(text) ==
    CASE text = "{\"type\": \"number\"}" -> "number"
      [] text = "{\"type\": \"string\"}" -> "string"
      [] text = "null" -> "null"
      [] text = "{}" -> "dict()"
      [] text = "{\"hi\": 56}" -> "dict(hi=56)"

\* the streams table of the store the Logger is opened on
StoredStreams == [n \in {"a", "b"} |-> "{\"type\": \"number\"}"]

\* __init__: SELECT * FROM streams; self.streams[row[0]] = json.loads(row[1])
LoadStreams(table) == [n \in DOMAIN table |-> json_loads(table[n])]

VARIABLES
    streams,      \* self.streams: registered name -> schema (in memory)
    dbstreams,    \* table streams(stream PRIMARY KEY, jsonschema)
    cache,        \* table cache(stream, timestamp, jsondata); id is the rowid
    lastsync,     \* self.__lastsync
    dblastsync,   \* metadata.lastsynctime
    cdb,          \* self.__cdb is not None
    synclock,     \* self.synclock: "free" or the thread holding it
    syncthread,   \* self.syncthread: "None", or the state of the Timer it names
    timerperiod,  \* the interval of the Timer self.syncthread names (0: None)
    pendingtimers,\* Timers that were started and have neither fired nor
                  \* been cancelled
    syncperiod,   \* self.__syncperiod
    dbsyncperiod, \* metadata.syncperiod
    closed,       \* self.database has been closed (or not yet opened)
    apikey,       \* self.__apikey
    dbapikey,     \* metadata.apikey
    serverurl,    \* self.__serverurl
    dbserverurl,  \* metadata.serverurl
    dbuserdata,   \* metadata.userdatajson
    metarows,     \* SELECT COUNT(*) FROM metadata
    ctor,         \* __init__: the arguments apikey and on_create (is not None)
    setting,      \* a setter between its assignment and its UPDATE: the
                  \* field and the value
    createcalls,  \* calls of on_create so far
    atclose,      \* what the Logger held when close() closed the store
    onsyncfail,   \* self.onsyncfail is not None
    pc,           \* position of each thread
    cur,          \* sync(): loop variable `stream`
    remaining,    \* sync(): keys of self.streams the loop has not visited
    iterkeys,     \* sync(): keys of self.streams when the loop began
    batch,        \* sync(): datapointArray
    result,       \* how the last sync() of the thread ended
    failedAt,     \* the step of sync() that raised, "none" if none
    did,          \* steps the running cycle has executed
    hcalls,       \* calls of self.onsyncfail made by the running cycle
    hret,         \* what self.onsyncfail returned ("-": not called)
    adding,       \* addStream(): streamname, schema, the schema stream.schema
                  \* gives, and whether the call created the stream
    now,          \* the last value time.time() returned
    reachable,    \* the server answers requests
    rexists,      \* streams that exist on the server
    rschema,      \* the schema the server holds for each of them
    rlog,         \* requests POST <stream>/data the server accepted, in order
    accepted,     \* insert() calls that returned without raising
    removed,      \* rows deleted from cache so far
    recorded,     \* every point an accepted insert() wrote
    insraised,    \* the last insert() call raised
    mark,         \* `accepted` when the running cycle of the thread began
    snap,         \* rows of stream `cur` that were in cache at the SELECT
    lastup,       \* per stream, last timestamp the cycle uploaded (0: none)
    quiet,        \* "no": an insert, a registration or a remote failure
                  \* happened since the cycle began; "second": none did and
                  \* the cycle began in a calm state; "first": none did
    calm,         \* a cycle ended well and nothing of the kind happened since
    lastend       \* how the sync() of the last Timer thread that is through
                  \* ended ("none": a later Timer has fired since)

prog == <<streams, dbstreams, cache, lastsync, dblastsync, cdb, synclock,
          syncthread, onsyncfail>>
locals == <<pc, cur, remaining, iterkeys, batch, result, failedAt, did, hcalls,
            hret, adding>>
config == <<apikey, dbapikey, serverurl, dbserverurl, dbuserdata, metarows,
            ctor, setting, createcalls, atclose>>
store == <<syncperiod, dbsyncperiod, closed, config>>
timers == <<timerperiod, pendingtimers>>
sched == <<store, timers>>
env == <<now, reachable, rexists, rschema, rlog>>
hist == <<accepted, removed, recorded, insraised, mark, snap, lastup,
          quiet, calm, lastend>>
vars == <<prog, sched, locals, env, hist>>

NoLastUp == [s \in StreamNames |-> 0]
NotSetting == [field |-> "-", value |-> "-"]
NoCtor == [apikey |-> NoKey, on_create |-> FALSE]
NotClosed == [streams |-> << >>, cache |-> {}, apikey |-> "-",
              serverurl |-> "-", lastsynctime |-> 0, syncperiod |-> 0,
              data |-> "-"]
NotAdding == [name |-> NoStream, schema |-> "null", fetched |-> "null",
              created |-> FALSE]

Init ==
    /\ streams = LoadStreams(StoredStreams)
    /\ dbstreams = StoredStreams
    /\ cache = {}
    /\ lastsync = 0
    /\ dblastsync = 0
    /\ cdb = FALSE
    /\ synclock = "free"
    /\ syncthread = "None"
    /\ timerperiod = 0
    /\ pendingtimers = 0
    /\ syncperiod = DefaultPeriod
    /\ dbsyncperiod = DefaultPeriod
    /\ closed = FALSE
    /\ apikey = ""
    /\ dbapikey = ""
    /\ serverurl = CONNECTORDB_URL
    /\ dbserverurl = CONNECTORDB_URL
    /\ dbuserdata = "{}"
    /\ metarows = 1
    /\ ctor = NoCtor
    /\ setting = NotSetting
    /\ createcalls = 0
    /\ atclose = NotClosed
    /\ onsyncfail \in BOOLEAN
    /\ pc = [t \in Threads |-> "idle"]
    /\ cur = [t \in Threads |-> NoStream]
    /\ remaining = [t \in Threads |-> {}]
    /\ iterkeys = [t \in Threads |-> {}]
    /\ batch = [t \in Threads |-> << >>]
    /\ result = [t \in Threads |-> "none"]
    /\ failedAt = [t \in Threads |-> "none"]
    /\ did = [t \in Threads |-> {}]
    /\ hcalls = [t \in Threads |-> 0]
    /\ hret = [t \in Threads |-> "-"]
    /\ adding = NotAdding
    /\ now = 1
    /\ reachable \in BOOLEAN
    /\ rexists = StreamNames
    /\ rschema = [s \in StreamNames |-> "number"]
    /\ rlog = << >>
    /\ accepted = 0
    /\ removed = 0
    /\ recorded = {}
    /\ insraised = FALSE
    /\ mark = [t \in Threads |-> 0]
    /\ snap = [t \in Threads |-> {}]
    /\ lastup = [t \in Threads |-> NoLastUp]
    /\ quiet = [t \in Threads |-> "no"]
    /\ calm = FALSE
    /\ lastend = "none"

\* A store file that does not exist yet, before the first Logger is made
\* on it: no table has a row, no connection is open, and the fields of
\* the Logger to come hold nothing.
InitStore ==
    /\ streams = << >>
    /\ dbstreams = << >>
    /\ cache = {}
    /\ lastsync = 0
    /\ dblastsync = 0
    /\ cdb = FALSE
    /\ synclock = "free"
    /\ syncthread = "None"
    /\ timerperiod = 0
    /\ pendingtimers = 0
    /\ syncperiod = 0
    /\ dbsyncperiod = 0
    /\ closed = TRUE
    /\ apikey = "-"
    /\ dbapikey = "-"
    /\ serverurl = "-"
    /\ dbserverurl = "-"
    /\ dbuserdata = "-"
    /\ metarows = 0
    /\ ctor = NoCtor
    /\ setting = NotSetting
    /\ createcalls = 0
    /\ atclose = NotClosed
    /\ onsyncfail = FALSE
    /\ pc = [t \in Threads |-> "idle"]
    /\ cur = [t \in Threads |-> NoStream]
    /\ remaining = [t \in Threads |-> {}]
    /\ iterkeys = [t \in Threads |-> {}]
    /\ batch = [t \in Threads |-> << >>]
    /\ result = [t \in Threads |-> "none"]
    /\ failedAt = [t \in Threads |-> "none"]
    /\ did = [t \in Threads |-> {}]
    /\ hcalls = [t \in Threads |-> 0]
    /\ hret = [t \in Threads |-> "-"]
    /\ adding = NotAdding
    /\ now = 1
    /\ reachable \in BOOLEAN
    /\ rexists = StreamNames
    /\ rschema = [s \in StreamNames |-> "number"]
    /\ rlog = << >>
    /\ accepted = 0
    /\ removed = 0
    /\ recorded = {}
    /\ insraised = FALSE
    /\ mark = [t \in Threads |-> 0]
    /\ snap = [t \in Threads |-> {}]
    /\ lastup = [t \in Threads |-> NoLastUp]
    /\ quiet = [t \in Threads |-> "no"]
    /\ calm = FALSE
    /\ lastend = "none"

\* ----------------------------------------------------------- pure helpers

\* jsonschema.validate(value, schema) returns (TRUE) or raises (FALSE).
\* The schema None is not a schema object: validate raises on it before it
\* looks at the value.  {"type": "number"} accepts the number, not the
\* string; {"type": "string"} the string, not the number.
validate(value, schema) ==
    /\ schema # "null"
    /\ schema = "number" => value = "5"
    /\ schema = "string" => value = "bad"

\* InsertVerdict with the call of validate() left out
InsertVerdictUnvalidated(streamname, value) ==
    IF streamname \notin DOMAIN streams THEN "notfound" ELSE "ok"

\* insert(): what the two checks before the INSERT decide.
InsertVerdict(streamname, value) ==
    IF streamname \notin DOMAIN streams THEN "notfound"
    ELSE IF ~validate(value, streams[streamname]) THEN "invalid"
    ELSE "ok"

\* SELECT * FROM cache WHERE stream=?
SelectStream(rows, stream) == {r \in rows : r.stream = stream}

\* OrderByTimestamp with DESC for ASC
OrderByTimestampDesc(rows) ==
    {q \in [1..Cardinality(rows) -> rows] :
        /\ \A i, j \in 1..Cardinality(rows) : i # j => q[i] # q[j]
        /\ \A i, j \in 1..Cardinality(rows) : i < j => q[i].t >= q[j].t}

\* ... ORDER BY timestamp ASC: every arrangement of the rows in which the
\* timestamps never decrease (sqlite leaves the order of equal keys open).
OrderByTimestamp(rows) ==
    {q \in [1..Cardinality(rows) -> rows] :
        /\ \A i, j \in 1..Cardinality(rows) : i # j => q[i] # q[j]
        /\ \A i, j \in 1..Cardinality(rows) : i < j => q[i].t <= q[j].t}

\* DeleteUpTo with the condition on the timestamp left out
DeleteWholeStream(rows, stream, t) == {r \in rows : r.stream # stream}

\* DeleteUpTo with < for <=
DeleteBelow(rows, stream, t) ==
    {r \in rows : ~(r.stream = stream /\ r.t < t)}

\* DeleteUpTo with the condition on the stream left out
DeleteAnyStream(rows, stream, t) == {r \in rows : ~(r.t <= t)}

\* DELETE FROM cache WHERE stream=? AND timestamp <=?  (the rows that stay)
DeleteUpTo(rows, stream, t) ==
    {r \in rows : ~(r.stream = stream /\ r.t <= t)}

\* __len__: SELECT COUNT() FROM cache
PendingCount == Cardinality(cache)

\* time.time(): the values the next call may return
TimeReadings == {t \in {now, now + 1} : t <= MaxClock}

\* datapointArray[-1]["t"]
LastT(q) == q[Len(q)].t

Running(t) == pc[t] \notin {"idle", "done"}

\* data (getter): SELECT userdatajson FROM metadata; json.loads
data == json_loads(dbuserdata)

\* what the properties and tables of the Logger give the application
Held == [streams |-> streams, cache |-> cache, apikey |-> apikey,
         serverurl |-> serverurl, lastsynctime |-> lastsync,
         syncperiod |-> syncperiod, data |-> data]

\* ---------------------------------------------------- history bookkeeping
Disturb ==
    /\ quiet' = [t \in Threads |-> "no"]
    /\ calm' = FALSE

\* ------------------------------------------------------- application calls

\* insert() with the INSERT moved before the two checks: the row is written,
\* then the call raises
insertWritesFirst(streamname, value) ==
    /\ LET verdict == InsertVerdict(streamname, value)
       IN  /\ accepted < MaxPoints
           /\ insraised' = (verdict # "ok")
           /\ \E time \in TimeReadings :
                LET point == [id |-> accepted + 1, stream |-> streamname,
                              t |-> time, d |-> value]
                IN  /\ cache' = cache \cup {point}
                    /\ now' = time
                    /\ IF verdict = "ok"
                       THEN /\ accepted' = accepted + 1
                            /\ recorded' = recorded \cup {point}
                       ELSE UNCHANGED <<accepted, recorded>>
    /\ Disturb
    /\ UNCHANGED <<sched, lastend>>
    /\ UNCHANGED <<streams, dbstreams, lastsync, dblastsync, cdb, synclock,
                   syncthread, onsyncfail, locals, reachable, rexists,
                   rschema, rlog,
                   removed, mark, snap, lastup>>

\* insert() with a look at self.connectordb first: the handle is built, and
\* the call raises when the server cannot be reached
insertOnline(streamname, value) ==
    /\ LET verdict == IF ~(cdb \/ reachable) THEN "offline"
                      ELSE InsertVerdict(streamname, value)
       IN  /\ verdict = "ok" => accepted < MaxPoints
           /\ insraised' = (verdict # "ok")
           /\ cdb' = (cdb \/ reachable)
           /\ IF verdict = "ok"
              THEN \E time \in TimeReadings :
                   LET point == [id |-> accepted + 1, stream |-> streamname,
                                 t |-> time, d |-> value]
                   IN  /\ cache' = cache \cup {point}
                       /\ accepted' = accepted + 1
                       /\ recorded' = recorded \cup {point}
                       /\ now' = time
              ELSE UNCHANGED <<cache, accepted, recorded, now>>
    /\ Disturb
    /\ UNCHANGED <<sched, lastend>>
    /\ UNCHANGED <<streams, dbstreams, lastsync, dblastsync, synclock,
                   syncthread, onsyncfail, locals, reachable, rexists,
                   rschema, rlog,
                   removed, mark, snap, lastup>>

\* insert(streamname, value): the two checks, then the INSERT, which raises
\* when the connection to the store has been closed
insert(streamname, value) ==
    /\ LET verdict == InsertVerdict(streamname, value)
           written == verdict = "ok" /\ ~closed
       IN  /\ written => accepted < MaxPoints
           /\ insraised' = ~written
           /\ IF written
              THEN \E time \in TimeReadings :
                   LET point == [id |-> accepted + 1, stream |-> streamname,
                                 t |-> time, d |-> value]
                   IN  /\ cache' = cache \cup {point}
                       /\ accepted' = accepted + 1
                       /\ recorded' = recorded \cup {point}
                       /\ now' = time
              ELSE UNCHANGED <<cache, accepted, recorded, now>>
    /\ Disturb
    /\ UNCHANGED <<sched, lastend>>
    /\ UNCHANGED <<streams, dbstreams, lastsync, dblastsync, cdb, synclock,
                   syncthread, onsyncfail, locals, reachable, rexists,
                   rschema, rlog, removed, mark, snap, lastup>>

\* StreamsPut with INSERT OR IGNORE for INSERT OR REPLACE: a row that
\* exists is kept
StreamsPutIgnores(streamname, schema) ==
    /\ dbstreams' = [n \in DOMAIN dbstreams \cup {streamname} |->
                        IF n \in DOMAIN dbstreams THEN dbstreams[n]
                        ELSE json_dumps(schema)]
    /\ streams' = [n \in DOMAIN streams \cup {streamname} |->
                        IF n = streamname THEN schema ELSE streams[n]]

\* INSERT OR REPLACE INTO streams VALUES (?,?); self.streams[streamname] = schema
StreamsPut(streamname, schema) ==
    /\ dbstreams' = [n \in DOMAIN dbstreams \cup {streamname} |->
                        IF n = streamname THEN json_dumps(schema)
                        ELSE dbstreams[n]]
    /\ streams' = [n \in DOMAIN streams \cup {streamname} |->
                        IF n = streamname THEN schema ELSE streams[n]]

\* addStream_force(streamname, schema)
addStream_force(streamname, schema) ==
    /\ ~closed
    /\ StreamsPut(streamname, schema)
    /\ streams' # streams
    /\ Disturb
    /\ UNCHANGED <<sched, lastend>>
    /\ UNCHANGED <<cache, lastsync, dblastsync, cdb, synclock, syncthread,
                   onsyncfail, locals, env,
                   accepted, removed, recorded, insraised, mark, snap,
                   lastup>>

\* the frame of a step of addStream() that leaves the Logger's fields alone
AddFrame ==
    UNCHANGED <<streams, dbstreams, cache, lastsync, dblastsync, synclock,
                syncthread, onsyncfail, sched, cur, remaining, iterkeys,
                batch, result, failedAt, did, hcalls, hret, now, reachable,
                rlog, hist>>

\* addStream with the schema of the caller mirrored when one is given
addStreamTrustsCaller(streamname, schema) ==
    /\ pc["main"] = "idle"
    /\ cdb' = (cdb \/ reachable)
    /\ IF ~(cdb \/ reachable)
       THEN /\ pc' = [pc EXCEPT !["main"] = "raised"]
            /\ adding' = [NotAdding EXCEPT !.name = streamname,
                                           !.schema = schema]
       ELSE IF reachable /\ streamname \in rexists
       THEN /\ pc' = [pc EXCEPT !["main"] = "addforce"]
            /\ adding' = [name |-> streamname, schema |-> schema,
                          fetched |-> IF schema # "null" THEN schema
                                      ELSE rschema[streamname],
                          created |-> FALSE]
       ELSE /\ pc' = [pc EXCEPT !["main"] =
                        IF schema # "null" THEN "create" ELSE "raised"]
            /\ adding' = [NotAdding EXCEPT !.name = streamname,
                                           !.schema = schema]
    /\ UNCHANGED <<rexists, rschema>>
    /\ AddFrame

\* addStream(streamname, schema): stream = self.connectordb[streamname],
\* which builds the handle on first use; stream.exists() fetches the
\* metadata of the stream and is false when the request fails for any
\* reason; with no stream and no schema the call raises.
addStream(streamname, schema) ==
    /\ pc["main"] = "idle"
    /\ cdb' = (cdb \/ reachable)
    /\ IF ~(cdb \/ reachable)
       THEN /\ pc' = [pc EXCEPT !["main"] = "raised"]
            /\ adding' = [NotAdding EXCEPT !.name = streamname,
                                           !.schema = schema]
       ELSE IF reachable /\ streamname \in rexists
       THEN /\ pc' = [pc EXCEPT !["main"] = "addforce"]
            /\ adding' = [name |-> streamname, schema |-> schema,
                          fetched |-> rschema[streamname],
                          created |-> FALSE]
       ELSE /\ pc' = [pc EXCEPT !["main"] =
                        IF schema # "null" THEN "create" ELSE "raised"]
            /\ adding' = [NotAdding EXCEPT !.name = streamname,
                                           !.schema = schema]
    /\ UNCHANGED <<rexists, rschema>>
    /\ AddFrame

\* stream.create(schema): the server makes the stream and answers with its
\* metadata; the request fails when the server cannot be reached or has
\* the stream by now
AddCreate ==
    /\ pc["main"] = "create"
    /\ IF reachable /\ adding.name \notin rexists
       THEN /\ rexists' = rexists \cup {adding.name}
            /\ rschema' = [rschema EXCEPT ![adding.name] = adding.schema]
            /\ adding' = [adding EXCEPT !.fetched = adding.schema,
                                        !.created = TRUE]
            /\ pc' = [pc EXCEPT !["main"] = "addforce"]
       ELSE /\ pc' = [pc EXCEPT !["main"] = "raised"]
            /\ UNCHANGED <<rexists, rschema, adding>>
    /\ UNCHANGED cdb
    /\ AddFrame

\* self.addStream_force(streamname, stream.schema)
AddForce ==
    /\ pc["main"] = "addforce"
    /\ IF closed
       THEN /\ pc' = [pc EXCEPT !["main"] = "raised"]
            /\ UNCHANGED <<streams, dbstreams, quiet, calm>>
       ELSE /\ pc' = [pc EXCEPT !["main"] = "idle"]
            /\ StreamsPut(adding.name, adding.fetched)
            /\ Disturb
    /\ UNCHANGED <<cache, lastsync, dblastsync, cdb, synclock, syncthread,
                   onsyncfail, sched, cur, remaining, iterkeys, batch,
                   result, failedAt, did, hcalls, hret, adding, env,
                   accepted, removed, recorded, insraised, mark, snap,
                   lastup, lastend>>

\* ------------------------------------------------------------ environment

SetReachable ==
    /\ reachable' = ~reachable
    /\ Disturb
    /\ UNCHANGED <<sched, lastend>>
    /\ UNCHANGED <<prog, locals, now, rexists, rschema, rlog,
                   accepted, removed, recorded, insraised, mark, snap,
                   lastup>>

\* another client deletes the stream Victim on the server, or creates it
RemoteChange ==
    /\ rexists' = IF Victim \in rexists THEN rexists \ {Victim}
                  ELSE rexists \cup {Victim}
    /\ rschema' = [rschema EXCEPT ![Victim] = "number"]
    /\ Disturb
    /\ UNCHANGED <<sched, lastend>>
    /\ UNCHANGED <<prog, locals, now, reachable, rlog,
                   accepted, removed, recorded, insraised, mark, snap,
                   lastup>>

\* ------------------------------------------------------------------ sync()

\* Raise without the release of the lock on the way out of the with block
RaiseKeepsLock(t, where) ==
    /\ pc' = [pc EXCEPT ![t] = "except"]
    /\ failedAt' = [failedAt EXCEPT ![t] = where]
    /\ synclock' = synclock

\* An exception leaves the `with self.synclock` block, if it was entered,
\* and reaches the except clause of sync().
Raise(t, where) ==
    /\ pc' = [pc EXCEPT ![t] = "except"]
    /\ failedAt' = [failedAt EXCEPT ![t] = where]
    /\ synclock' = IF synclock = t THEN "free" ELSE synclock

\* SyncEnter with `self.lastsynctime = time.time()` as the first statement
\* of sync() instead of the last
SyncEnterStamps(t) ==
    /\ mark' = [mark EXCEPT ![t] = accepted]
    /\ quiet' = [quiet EXCEPT ![t] =
                    IF ~(reachable /\ DOMAIN streams \subseteq rexists) THEN "no"
                    ELSE IF calm THEN "second" ELSE "first"]
    /\ \E time \in TimeReadings :
          /\ lastsync' = time
          /\ dblastsync' = time
          /\ now' = time
    /\ IF cdb \/ reachable
       THEN /\ cdb' = TRUE
            /\ pc' = [pc EXCEPT ![t] = "ping"]
            /\ UNCHANGED <<failedAt, synclock>>
       ELSE /\ Raise(t, "connect")
            /\ UNCHANGED cdb
    /\ UNCHANGED store
    /\ UNCHANGED <<streams, dbstreams, cache, onsyncfail,
                   cur, remaining, iterkeys, batch, result, did, hcalls, hret,
                   adding,
                   reachable, rexists, rschema, rlog,
                   accepted, removed, recorded, insraised, snap, lastup,
                   calm>>

\* sync() is entered and evaluates self.connectordb: the handle is built on
\* first use, and building it pings the server.
SyncEnter(t) ==
    /\ mark' = [mark EXCEPT ![t] = accepted]
    /\ quiet' = [quiet EXCEPT ![t] =
                    IF ~(reachable /\ DOMAIN streams \subseteq rexists) THEN "no"
                    ELSE IF calm THEN "second" ELSE "first"]
    /\ IF cdb \/ reachable
       THEN /\ cdb' = TRUE
            /\ pc' = [pc EXCEPT ![t] = "ping"]
            /\ UNCHANGED <<failedAt, synclock>>
       ELSE /\ Raise(t, "connect")
            /\ UNCHANGED cdb
    /\ UNCHANGED store
    /\ UNCHANGED <<streams, dbstreams, cache, lastsync, dblastsync, onsyncfail,
                   cur, remaining, iterkeys, batch, result, did, hcalls, hret,
                   adding,
                   env, accepted, removed, recorded, insraised, snap, lastup,
                   calm>>

\* the application calls sync()
SyncCall ==
    /\ pc["main"] = "idle"
    /\ SyncEnter("main")
    /\ UNCHANGED <<syncthread, timers, lastend>>

\* cdb.ping()
SyncPing(t) ==
    /\ pc[t] = "ping"
    /\ IF reachable
       THEN /\ pc' = [pc EXCEPT ![t] = "lock"]
            /\ UNCHANGED <<failedAt, synclock>>
       ELSE Raise(t, "ping")
    /\ UNCHANGED sched
    /\ UNCHANGED <<streams, dbstreams, cache, lastsync, dblastsync, cdb,
                   syncthread, onsyncfail, cur, remaining, iterkeys, batch,
                   result, did, hcalls, hret, adding, env, hist>>

\* SyncLock entering the block whether or not the lock is free
SyncLockNoWait(t) ==
    /\ pc[t] = "lock"
    /\ IF closed
       THEN /\ Raise(t, "closed")
            /\ UNCHANGED <<iterkeys, remaining, did>>
       ELSE /\ synclock' = t
            /\ iterkeys' = [iterkeys EXCEPT ![t] = DOMAIN streams]
            /\ remaining' = [remaining EXCEPT ![t] = DOMAIN streams]
            /\ did' = [did EXCEPT ![t] = @ \cup {"lock"}]
            /\ pc' = [pc EXCEPT ![t] = "loop"]
            /\ UNCHANGED failedAt
    /\ UNCHANGED sched
    /\ UNCHANGED <<streams, dbstreams, cache, lastsync, dblastsync, cdb,
                   syncthread, onsyncfail, cur, batch, result,
                   hcalls, hret, adding, env, hist>>

\* with self.synclock: c = self.database.cursor(), which raises when the
\* connection has been closed; for stream in self.streams
SyncLock(t) ==
    /\ pc[t] = "lock"
    /\ synclock = "free"
    /\ IF closed
       THEN /\ Raise(t, "closed")
            /\ UNCHANGED <<iterkeys, remaining, did>>
       ELSE /\ synclock' = t
            /\ iterkeys' = [iterkeys EXCEPT ![t] = DOMAIN streams]
            /\ remaining' = [remaining EXCEPT ![t] = DOMAIN streams]
            /\ did' = [did EXCEPT ![t] = @ \cup {"lock"}]
            /\ pc' = [pc EXCEPT ![t] = "loop"]
            /\ UNCHANGED failedAt
    /\ UNCHANGED sched
    /\ UNCHANGED <<streams, dbstreams, cache, lastsync, dblastsync, cdb,
                   syncthread, onsyncfail, cur, batch, result,
                   hcalls, hret, adding, env, hist>>

\* SyncLoop with `continue` for the raise when s.exists() is false: the
\* stream is skipped and the loop goes on
SyncLoopSkips(t) ==
    /\ pc[t] = "loop"
    /\ IF DOMAIN streams # iterkeys[t]
       THEN /\ Raise(t, "iter")
            /\ UNCHANGED <<lastsync, dblastsync, cur, remaining, batch,
                           result, did, snap, calm, now>>
       ELSE IF remaining[t] = {}
       THEN /\ \E time \in TimeReadings :
                  /\ lastsync' = time
                  /\ dblastsync' = time
                  /\ now' = time
            /\ synclock' = "free"
            /\ pc' = [pc EXCEPT ![t] = "done"]
            /\ result' = [result EXCEPT ![t] = "ok"]
            /\ did' = [did EXCEPT ![t] = @ \cup {"stamp"}]
            /\ calm' = (quiet[t] # "no")
            /\ UNCHANGED <<cur, remaining, batch, failedAt, snap>>
       ELSE \E s \in remaining[t] :
            /\ cur' = [cur EXCEPT ![t] = s]
            /\ remaining' = [remaining EXCEPT ![t] = @ \ {s}]
            /\ UNCHANGED <<lastsync, dblastsync, result, calm, now>>
            /\ IF ~(reachable /\ s \in rexists)
               THEN /\ pc' = [pc EXCEPT ![t] = "loop"]
                    /\ UNCHANGED <<batch, did, snap, failedAt, synclock>>
               ELSE /\ did' = [did EXCEPT ![t] = @ \cup {"read"}]
                    /\ snap' = [snap EXCEPT ![t] = {r \in cache : r.stream = s}]
                    /\ \E q \in OrderByTimestamp(SelectStream(cache, s)) :
                          batch' = [batch EXCEPT ![t] = q]
                    /\ pc' = [pc EXCEPT ![t] =
                                IF SelectStream(cache, s) = {} THEN "loop"
                                ELSE "upload"]
                    /\ UNCHANGED <<failedAt, synclock>>
    /\ UNCHANGED <<sched, lastend>>
    /\ UNCHANGED <<streams, dbstreams, cache, cdb, syncthread, onsyncfail,
                   iterkeys, hcalls, hret, adding, reachable, rexists,
                   rschema, rlog,
                   accepted, removed, recorded, insraised, mark, lastup, quiet>>

\* One step of the for loop.  The dict iterator raises when the dict has
\* grown; at the end of the loop lastsynctime is set and the lock released;
\* otherwise the next stream is checked on the server and its rows are read.
SyncLoop(t) ==
    /\ pc[t] = "loop"
    /\ IF DOMAIN streams # iterkeys[t]
       THEN /\ Raise(t, "iter")
            /\ UNCHANGED <<lastsync, dblastsync, cur, remaining, batch,
                           result, did, snap, calm, now>>
       ELSE IF remaining[t] = {}
       THEN /\ \E time \in TimeReadings :
                  /\ lastsync' = time
                  /\ dblastsync' = time
                  /\ now' = time
            /\ synclock' = "free"
            /\ pc' = [pc EXCEPT ![t] = "done"]
            /\ result' = [result EXCEPT ![t] = "ok"]
            /\ did' = [did EXCEPT ![t] = @ \cup {"stamp"}]
            /\ calm' = (quiet[t] # "no")
            /\ UNCHANGED <<cur, remaining, batch, failedAt, snap>>
       ELSE \E s \in remaining[t] :
            /\ cur' = [cur EXCEPT ![t] = s]
            /\ remaining' = [remaining EXCEPT ![t] = @ \ {s}]
            /\ UNCHANGED <<lastsync, dblastsync, result, calm, now>>
            /\ IF ~(reachable /\ s \in rexists)
               THEN /\ Raise(t, "exists")
                    /\ UNCHANGED <<batch, did, snap>>
               ELSE /\ did' = [did EXCEPT ![t] = @ \cup {"read"}]
                    /\ snap' = [snap EXCEPT ![t] = {r \in cache : r.stream = s}]
                    /\ \E q \in OrderByTimestamp(SelectStream(cache, s)) :
                          batch' = [batch EXCEPT ![t] = q]
                    /\ pc' = [pc EXCEPT ![t] =
                                IF SelectStream(cache, s) = {} THEN "loop"
                                ELSE "upload"]
                    /\ UNCHANGED <<failedAt, synclock>>
    /\ UNCHANGED <<sched, lastend>>
    /\ UNCHANGED <<streams, dbstreams, cache, cdb, syncthread, onsyncfail,
                   iterkeys, hcalls, hret, adding, reachable, rexists,
                   rschema, rlog,
                   accepted, removed, recorded, insraised, mark, lastup, quiet>>

\* SyncUpload with the with block ending after insert_array: the DELETE
\* runs outside it
SyncUploadUnlocks(t) ==
    /\ pc[t] = "upload"
    /\ IF reachable /\ cur[t] \in rexists
       THEN /\ rlog' = Append(rlog, [stream |-> cur[t], pts |-> batch[t]])
            /\ lastup' = [lastup EXCEPT ![t][cur[t]] = LastT(batch[t])]
            /\ did' = [did EXCEPT ![t] = @ \cup {"upload"}]
            /\ pc' = [pc EXCEPT ![t] = "delete"]
            /\ synclock' = "free"
            /\ UNCHANGED failedAt
       ELSE /\ Raise(t, "upload")
            /\ UNCHANGED <<rlog, lastup, did>>
    /\ UNCHANGED <<sched, lastend>>
    /\ UNCHANGED <<streams, dbstreams, cache, lastsync, dblastsync, cdb,
                   syncthread, onsyncfail, cur, remaining, iterkeys, batch,
                   result, hcalls, hret, adding, now, reachable, rexists,
                   rschema,
                   accepted, removed, recorded, insraised, mark, snap,
                   quiet, calm>>

\* s.insert_array(datapointArray): one POST of the whole array
SyncUpload(t) ==
    /\ pc[t] = "upload"
    /\ IF reachable /\ cur[t] \in rexists
       THEN /\ rlog' = Append(rlog, [stream |-> cur[t], pts |-> batch[t]])
            /\ lastup' = [lastup EXCEPT ![t][cur[t]] = LastT(batch[t])]
            /\ did' = [did EXCEPT ![t] = @ \cup {"upload"}]
            /\ pc' = [pc EXCEPT ![t] = "delete"]
            /\ UNCHANGED <<failedAt, synclock>>
       ELSE /\ Raise(t, "upload")
            /\ UNCHANGED <<rlog, lastup, did>>
    /\ UNCHANGED <<sched, lastend>>
    /\ UNCHANGED <<streams, dbstreams, cache, lastsync, dblastsync, cdb,
                   syncthread, onsyncfail, cur, remaining, iterkeys, batch,
                   result, hcalls, hret, adding, now, reachable, rexists,
                   rschema,
                   accepted, removed, recorded, insraised, mark, snap,
                   quiet, calm>>

\* DELETE FROM cache WHERE stream=? AND timestamp <=?
SyncDelete(t) ==
    /\ pc[t] = "delete"
    /\ cache' = DeleteUpTo(cache, cur[t], LastT(batch[t]))
    /\ removed' = removed + Cardinality(cache \ cache')
    /\ did' = [did EXCEPT ![t] = @ \cup {"delete"}]
    /\ pc' = [pc EXCEPT ![t] = "loop"]
    /\ UNCHANGED <<sched, lastend>>
    /\ UNCHANGED <<streams, dbstreams, lastsync, dblastsync, cdb, synclock,
                   syncthread, onsyncfail, cur, remaining, iterkeys, batch,
                   result, failedAt, hcalls, hret, adding, env,
                   accepted, recorded, insraised, mark, snap, lastup,
                   quiet, calm>>

\* SyncExcept with `reraise = False` for `reraise = True`
SyncExceptSwallows(t) ==
    /\ pc[t] = "except"
    /\ \E answer \in BOOLEAN :
          /\ hret' = [hret EXCEPT ![t] =
                        IF ~onsyncfail THEN "-"
                        ELSE IF answer THEN "true" ELSE "false"]
          /\ hcalls' = [hcalls EXCEPT ![t] = IF onsyncfail THEN @ + 1 ELSE @]
          /\ result' = [result EXCEPT ![t] =
                          IF onsyncfail /\ answer THEN "raised"
                          ELSE "returned"]
    /\ pc' = [pc EXCEPT ![t] = "done"]
    /\ UNCHANGED sched
    /\ UNCHANGED <<prog, cur, remaining, iterkeys, batch, failedAt, did,
                   adding, env, hist>>

\* SyncExcept with `if not reraise: raise`
SyncExceptInverted(t) ==
    /\ pc[t] = "except"
    /\ \E answer \in BOOLEAN :
          /\ hret' = [hret EXCEPT ![t] =
                        IF ~onsyncfail THEN "-"
                        ELSE IF answer THEN "true" ELSE "false"]
          /\ hcalls' = [hcalls EXCEPT ![t] = IF onsyncfail THEN @ + 1 ELSE @]
          /\ result' = [result EXCEPT ![t] =
                          IF ~onsyncfail \/ answer THEN "returned"
                          ELSE "raised"]
    /\ pc' = [pc EXCEPT ![t] = "done"]
    /\ UNCHANGED sched
    /\ UNCHANGED <<prog, cur, remaining, iterkeys, batch, failedAt, did,
                   adding, env, hist>>

\* except: reraise = True; if a callback is set, reraise = what it returns
\* (the callback is free to return either); if reraise: raise
SyncExcept(t) ==
    /\ pc[t] = "except"
    /\ \E answer \in BOOLEAN :
          /\ hret' = [hret EXCEPT ![t] =
                        IF ~onsyncfail THEN "-"
                        ELSE IF answer THEN "true" ELSE "false"]
          /\ hcalls' = [hcalls EXCEPT ![t] = IF onsyncfail THEN @ + 1 ELSE @]
          /\ result' = [result EXCEPT ![t] =
                          IF ~onsyncfail \/ answer THEN "raised"
                          ELSE "returned"]
    /\ pc' = [pc EXCEPT ![t] = "done"]
    /\ UNCHANGED sched
    /\ UNCHANGED <<prog, cur, remaining, iterkeys, batch, failedAt, did,
                   adding, env, hist>>

\* the thread leaves sync(); its locals are gone
Forget(t) ==
    /\ pc' = [pc EXCEPT ![t] = "idle"]
    /\ cur' = [cur EXCEPT ![t] = NoStream]
    /\ remaining' = [remaining EXCEPT ![t] = {}]
    /\ iterkeys' = [iterkeys EXCEPT ![t] = {}]
    /\ batch' = [batch EXCEPT ![t] = << >>]
    /\ result' = [result EXCEPT ![t] = "none"]
    /\ failedAt' = [failedAt EXCEPT ![t] = "none"]
    /\ did' = [did EXCEPT ![t] = {}]
    /\ hcalls' = [hcalls EXCEPT ![t] = 0]
    /\ hret' = [hret EXCEPT ![t] = "-"]
    /\ mark' = [mark EXCEPT ![t] = 0]
    /\ snap' = [snap EXCEPT ![t] = {}]
    /\ lastup' = [lastup EXCEPT ![t] = NoLastUp]
    /\ quiet' = [quiet EXCEPT ![t] = "no"]
    /\ UNCHANGED <<adding, env, accepted, removed, recorded, insraised, calm>>

\* sync() returns to, or raises into, the application
SyncReturn ==
    /\ pc["main"] = "done"
    /\ Forget("main")
    /\ UNCHANGED <<prog, sched, lastend>>

\* ---------------------------------------------------------------- the timer

\* the frame of a step of the application thread that only moves it on
MainFrame ==
    UNCHANGED <<cur, remaining, iterkeys, batch, result, failedAt, did,
                hcalls, hret, adding, env, hist>>

\* threading.Timer.cancel() on the Timer self.syncthread names: a Timer that
\* has fired already is not affected
Cancelled == IF syncthread = "armed" THEN pendingtimers - 1 ELSE pendingtimers

\* SetSync without self.syncthread.cancel()
SetSyncNoCancel ==
    /\ synclock = "free"
    /\ pendingtimers' = pendingtimers + 1
    /\ syncthread' = "armed"
    /\ timerperiod' = syncperiod

\* __setsync(): under the lock, cancel the Timer self.syncthread names and
\* start a new one that waits self.syncperiod
SetSync ==
    /\ synclock = "free"
    /\ pendingtimers' = Cancelled + 1
    /\ syncthread' = "armed"
    /\ timerperiod' = syncperiod

\* start() without the look at self.connectordb
startUnconnected ==
    /\ pc["main"] = "idle"
    /\ pc' = [pc EXCEPT !["main"] = "startcheck"]
    /\ MainFrame
    /\ UNCHANGED <<prog, sched>>

\* start() evaluates self.connectordb: the handle is built on first use, and
\* the call raises when the server cannot be reached
start ==
    /\ pc["main"] = "idle"
    /\ IF cdb \/ reachable
       THEN /\ cdb' = TRUE
            /\ pc' = [pc EXCEPT !["main"] = "startcheck"]
       ELSE /\ cdb' = cdb
            /\ pc' = [pc EXCEPT !["main"] = "raised"]
    /\ MainFrame
    /\ UNCHANGED <<streams, dbstreams, cache, lastsync, dblastsync, synclock,
                   syncthread, onsyncfail, sched>>

\* StartCheck with the test of self.syncthread left out
StartCheckAlways ==
    /\ pc["main"] = "startcheck"
    /\ synclock = "free"
    /\ pc' = [pc EXCEPT !["main"] = "setsync"]
    /\ MainFrame
    /\ UNCHANGED <<prog, sched>>

\* start(): with self.synclock: if self.syncthread is not None: return
StartCheck ==
    /\ pc["main"] = "startcheck"
    /\ synclock = "free"
    /\ pc' = [pc EXCEPT !["main"] =
                IF syncthread # "None" THEN "idle" ELSE "setsync"]
    /\ MainFrame
    /\ UNCHANGED <<prog, sched>>

\* the call of __setsync() that ends start() and the syncperiod setter
MainSetSync ==
    /\ pc["main"] = "setsync"
    /\ SetSync
    /\ pc' = [pc EXCEPT !["main"] = "idle"]
    /\ MainFrame
    /\ UNCHANGED <<streams, dbstreams, cache, lastsync, dblastsync, cdb,
                   synclock, onsyncfail, store>>

\* the exception of start(), of the syncperiod setter or of addStream()
\* reaches the application
CallRaised ==
    /\ pc["main"] = "raised"
    /\ pc' = [pc EXCEPT !["main"] = "idle"]
    /\ MainFrame
    /\ UNCHANGED <<prog, sched>>

\* stop(): under the lock, cancel the Timer and forget it
stop ==
    /\ pc["main"] = "idle"
    /\ synclock = "free"
    /\ syncthread # "None"
    /\ syncthread' = "None"
    /\ pendingtimers' = Cancelled
    /\ timerperiod' = 0
    /\ UNCHANGED <<streams, dbstreams, cache, lastsync, dblastsync, cdb,
                   synclock, onsyncfail, store, locals, env, hist>>

\* SetSyncperiod without the call of __setsync()
SetSyncperiodKeepsTimer(value) ==
    /\ pc["main"] = "idle"
    /\ synclock = "free"
    /\ syncperiod' = value
    /\ IF closed
       THEN /\ pc' = [pc EXCEPT !["main"] = "raised"]
            /\ UNCHANGED dbsyncperiod
       ELSE /\ dbsyncperiod' = value
            /\ UNCHANGED pc
    /\ <<syncperiod', pc'>> # <<syncperiod, pc>>
    /\ MainFrame
    /\ UNCHANGED <<prog, closed, timers, config>>

\* syncperiod setter: under the lock, self.__syncperiod = value and
\* resync = a Timer is set; UPDATE metadata (raises on a closed connection);
\* if resync, __setsync()
SetSyncperiod(value) ==
    /\ pc["main"] = "idle"
    /\ synclock = "free"
    /\ syncperiod' = value
    /\ IF closed
       THEN /\ pc' = [pc EXCEPT !["main"] = "raised"]
            /\ UNCHANGED dbsyncperiod
       ELSE /\ dbsyncperiod' = value
            /\ pc' = [pc EXCEPT !["main"] =
                        IF syncthread # "None" THEN "setsync" ELSE "idle"]
    /\ <<syncperiod', pc'>> # <<syncperiod, pc>>
    /\ MainFrame
    /\ UNCHANGED <<prog, closed, timers, config>>

\* close(): self.stop()
close ==
    /\ pc["main"] = "idle"
    /\ synclock = "free"
    /\ ~closed
    /\ syncthread' = "None"
    /\ pendingtimers' = Cancelled
    /\ timerperiod' = 0
    /\ pc' = [pc EXCEPT !["main"] = "closing"]
    /\ MainFrame
    /\ UNCHANGED <<streams, dbstreams, cache, lastsync, dblastsync, cdb,
                   synclock, onsyncfail, store>>

\* close(): with self.synclock: self.database.close()
CloseDatabase ==
    /\ pc["main"] = "closing"
    /\ synclock = "free"
    /\ closed' = TRUE
    /\ atclose' = Held
    /\ pc' = [pc EXCEPT !["main"] = "idle"]
    /\ MainFrame
    /\ UNCHANGED <<prog, syncperiod, dbsyncperiod, timers, apikey, dbapikey,
                   serverurl, dbserverurl, dbuserdata, metarows, ctor,
                   setting, createcalls>>

\* ------------------------------------------------- configuration and store

\* Open with the INSERT of the default row made whatever COUNT(*) gives
OpenAlwaysInserts(key, oncreate) ==
    /\ closed
    /\ pc["main"] = "idle" /\ pc["timer"] = "idle"
    /\ syncthread = "None"
    /\ metarows' = metarows + 1
    /\ apikey' = IF key # NoKey THEN key ELSE ""
    /\ dbapikey' = apikey'
    /\ serverurl' = CONNECTORDB_URL
    /\ dbserverurl' = CONNECTORDB_URL
    /\ lastsync' = 0
    /\ dblastsync' = 0
    /\ syncperiod' = DefaultPeriod
    /\ dbsyncperiod' = DefaultPeriod
    /\ dbuserdata' = "{}"
    /\ createcalls' = IF metarows = 0 /\ oncreate THEN createcalls + 1
                      ELSE createcalls
    /\ streams' = LoadStreams(dbstreams)
    /\ synclock' = "free"
    /\ syncthread' = "None"
    /\ cdb' = FALSE
    /\ closed' = FALSE
    /\ ctor' = [apikey |-> key, on_create |-> oncreate]
    /\ Disturb
    /\ UNCHANGED <<dbstreams, cache, onsyncfail, timers, setting, atclose,
                   locals, env, accepted, removed, recorded, insraised, mark,
                   snap, lastup, lastend>>

\* Open without the loop over SELECT * FROM streams: self.streams = {}
OpenForgetsStreams(key, oncreate) ==
    /\ closed
    /\ pc["main"] = "idle" /\ pc["timer"] = "idle"
    /\ syncthread = "None"
    /\ LET first == metarows = 0
           row == IF first
                  THEN [apikey |-> "", serverurl |-> CONNECTORDB_URL,
                        lastsynctime |-> 0, syncperiod |-> DefaultPeriod,
                        userdatajson |-> "{}"]
                  ELSE [apikey |-> dbapikey, serverurl |-> dbserverurl,
                        lastsynctime |-> dblastsync,
                        syncperiod |-> dbsyncperiod,
                        userdatajson |-> dbuserdata]
       IN  /\ metarows' = IF first THEN 1 ELSE metarows
           /\ apikey' = IF key # NoKey THEN key ELSE row.apikey
           /\ dbapikey' = apikey'
           /\ serverurl' = row.serverurl
           /\ dbserverurl' = row.serverurl
           /\ lastsync' = row.lastsynctime
           /\ dblastsync' = row.lastsynctime
           /\ syncperiod' = row.syncperiod
           /\ dbsyncperiod' = row.syncperiod
           /\ dbuserdata' = row.userdatajson
           /\ createcalls' = IF first /\ oncreate THEN createcalls + 1
                             ELSE createcalls
    /\ streams' = << >>
    /\ synclock' = "free"
    /\ syncthread' = "None"
    /\ cdb' = FALSE
    /\ closed' = FALSE
    /\ ctor' = [apikey |-> key, on_create |-> oncreate]
    /\ Disturb
    /\ UNCHANGED <<dbstreams, cache, onsyncfail, timers, setting, atclose,
                   locals, env, accepted, removed, recorded, insraised, mark,
                   snap, lastup, lastend>>

\* Logger(path, on_create, apikey): a Logger is made on the store.  The
\* tables are created if missing; if metadata has no row the default row is
\* inserted; the row and the streams table are loaded; an apikey that was
\* passed is written through the setter; the lock is new and no Timer is
\* set; on_create, if given, is called when the row was inserted.
Open(key, oncreate) ==
    /\ closed
    /\ pc["main"] = "idle" /\ pc["timer"] = "idle"
    /\ syncthread = "None"
    /\ LET first == metarows = 0
           row == IF first
                  THEN [apikey |-> "", serverurl |-> CONNECTORDB_URL,
                        lastsynctime |-> 0, syncperiod |-> DefaultPeriod,
                        userdatajson |-> "{}"]
                  ELSE [apikey |-> dbapikey, serverurl |-> dbserverurl,
                        lastsynctime |-> dblastsync,
                        syncperiod |-> dbsyncperiod,
                        userdatajson |-> dbuserdata]
       IN  /\ metarows' = IF first THEN 1 ELSE metarows
           /\ apikey' = IF key # NoKey THEN key ELSE row.apikey
           /\ dbapikey' = apikey'
           /\ serverurl' = row.serverurl
           /\ dbserverurl' = row.serverurl
           /\ lastsync' = row.lastsynctime
           /\ dblastsync' = row.lastsynctime
           /\ syncperiod' = row.syncperiod
           /\ dbsyncperiod' = row.syncperiod
           /\ dbuserdata' = row.userdatajson
           /\ createcalls' = IF first /\ oncreate THEN createcalls + 1
                             ELSE createcalls
    /\ streams' = LoadStreams(dbstreams)
    /\ synclock' = "free"
    /\ syncthread' = "None"
    /\ cdb' = FALSE
    /\ closed' = FALSE
    /\ ctor' = [apikey |-> key, on_create |-> oncreate]
    /\ Disturb
    /\ UNCHANGED <<dbstreams, cache, onsyncfail, timers, setting, atclose,
                   locals, env, accepted, removed, recorded, insraised, mark,
                   snap, lastup, lastend>>

\* the frame of the first statement of a setter
SetterFrame ==
    /\ MainFrame
    /\ UNCHANGED <<streams, dbstreams, cache, dblastsync, cdb, synclock,
                   syncthread, onsyncfail, syncperiod, dbsyncperiod, closed,
                   timers, dbapikey, dbserverurl, dbuserdata, metarows, ctor,
                   createcalls, atclose>>

\* apikey setter: self.__apikey = value
SetApikey(value) ==
    /\ pc["main"] = "idle"
    /\ apikey' = value
    /\ setting' = [field |-> "apikey", value |-> value]
    /\ pc' = [pc EXCEPT !["main"] = "update"]
    /\ SetterFrame
    /\ UNCHANGED <<serverurl, lastsync>>

\* serverurl setter: self.__serverurl = value
SetServerurl(value) ==
    /\ pc["main"] = "idle"
    /\ serverurl' = value
    /\ setting' = [field |-> "serverurl", value |-> value]
    /\ pc' = [pc EXCEPT !["main"] = "update"]
    /\ SetterFrame
    /\ UNCHANGED <<apikey, lastsync>>

\* lastsynctime setter: self.__lastsync = value
SetLastsynctime(value) ==
    /\ pc["main"] = "idle"
    /\ lastsync' = value
    /\ setting' = [field |-> "lastsynctime", value |-> value]
    /\ pc' = [pc EXCEPT !["main"] = "update"]
    /\ SetterFrame
    /\ UNCHANGED <<apikey, serverurl>>

\* the second statement of the three setters: UPDATE metadata SET <field>=?
\* with the value the call was given; it raises on a closed connection
Update ==
    /\ pc["main"] = "update"
    /\ IF closed
       THEN /\ pc' = [pc EXCEPT !["main"] = "raised"]
            /\ UNCHANGED <<dbapikey, dbserverurl, dblastsync>>
       ELSE /\ pc' = [pc EXCEPT !["main"] = "idle"]
            /\ dbapikey' = IF setting.field = "apikey" THEN setting.value
                           ELSE dbapikey
            /\ dbserverurl' = IF setting.field = "serverurl"
                              THEN setting.value ELSE dbserverurl
            /\ dblastsync' = IF setting.field = "lastsynctime"
                             THEN setting.value ELSE dblastsync
    /\ setting' = NotSetting
    /\ MainFrame
    /\ UNCHANGED <<streams, dbstreams, cache, lastsync, cdb, synclock,
                   syncthread, onsyncfail, syncperiod, dbsyncperiod, closed,
                   timers, apikey, serverurl, dbuserdata, metarows, ctor,
                   createcalls, atclose>>

\* data setter: UPDATE metadata SET userdatajson=? with json.dumps(value)
SetData(value) ==
    /\ pc["main"] = "idle"
    /\ IF closed
       THEN /\ pc' = [pc EXCEPT !["main"] = "raised"]
            /\ UNCHANGED dbuserdata
       ELSE /\ dbuserdata' = json_dumps(value)
            /\ dbuserdata' # dbuserdata
            /\ UNCHANGED pc
    /\ MainFrame
    /\ UNCHANGED <<prog, syncperiod, dbsyncperiod, closed, timers, apikey,
                   dbapikey, serverurl, dbserverurl, metarows, ctor, setting,
                   createcalls, atclose>>

\* the armed Timer fires: its thread enters __runsyncer and calls sync()
TimerFire ==
    /\ syncthread = "armed"
    /\ pc["timer"] = "idle"
    /\ syncthread' = "fired"
    /\ pendingtimers' = pendingtimers - 1
    /\ UNCHANGED timerperiod
    /\ lastend' = "none"
    /\ SyncEnter("timer")

\* Rearm without the call of __setsync()
RearmNever ==
    /\ pc["timer"] = "done"
    /\ result["timer"] # "raised"
    /\ lastend' = result["timer"]
    /\ Forget("timer")
    /\ UNCHANGED <<prog, sched>>

\* __runsyncer after sync() returned: __setsync() arms the next Timer
Rearm ==
    /\ pc["timer"] = "done"
    /\ result["timer"] # "raised"
    /\ SetSync
    /\ lastend' = result["timer"]
    /\ Forget("timer")
    /\ UNCHANGED <<streams, dbstreams, cache, lastsync, dblastsync, cdb,
                   synclock, onsyncfail, store>>

\* __runsyncer after sync() raised: evaluating `Exception and e` raises
\* NameError, which ends the thread before __setsync()
TimerDie ==
    /\ pc["timer"] = "done"
    /\ result["timer"] = "raised"
    /\ lastend' = result["timer"]
    /\ Forget("timer")
    /\ UNCHANGED <<prog, sched>>

\* --------------------------------------------------------- specification

\* steps of a sync() cycle, whichever thread runs it
SyncStep(t) ==
    \/ SyncPing(t)
    \/ SyncLock(t)
    \/ SyncLoop(t)
    \/ SyncUpload(t)
    \/ SyncDelete(t)
    \/ SyncExcept(t)

\* Spec: an application that records values of every kind on every name and
\* calls sync() itself, with a server that comes and goes; no callback.
Next ==
    \/ \E n \in StreamNames, v \in Values : insert(n, v)
    \/ SetReachable
    \/ SyncCall
    \/ SyncStep("main")
    \/ SyncReturn

\* Logger(path): no onsyncfail callback is given
InitNoCallback == Init /\ ~onsyncfail

Spec == InitNoCallback /\ [][Next]_vars

\* SpecFail: the failure policy of sync().  The callback may be set, streams
\* vanish from the server, and the application records numbers on "a".
NextFail ==
    \/ insert("a", "5")
    \/ SetReachable
    \/ RemoteChange
    \/ SyncCall
    \/ SyncStep("main")
    \/ SyncReturn

SpecFail == Init /\ [][NextFail]_vars

\* SpecStreams: a cycle over several streams.  Numbers are recorded on "a"
\* and "b", the server comes and goes and another client deletes "a"; the
\* application calls sync() itself; no callback.
NextStreams ==
    \/ \E n \in {"a", "b"} : insert(n, "5")
    \/ SetReachable
    \/ RemoteChange
    \/ SyncCall
    \/ SyncStep("main")
    \/ SyncReturn

SpecStreams == InitNoCallback /\ [][NextStreams]_vars

\* SpecTimer: the background service.  The application calls start() and
\* stop() and writes syncperiod while it records numbers on "a"; the Timer
\* thread runs the cycles; the callback may be set.
NextTimer ==
    \/ accepted < MaxTimerPoints /\ insert("a", "5")
    \/ SetReachable
    \/ start
    \/ StartCheck
    \/ MainSetSync
    \/ CallRaised
    \/ stop
    \/ \E v \in Periods : SetSyncperiod(v)
    \/ TimerFire
    \/ SyncStep("timer")
    \/ Rearm
    \/ TimerDie

SpecTimer == Init /\ [][NextTimer]_vars

\* SpecClose: the application starts the service, records a number, and
\* calls close() at any moment; it does not start a Logger it has closed.
\* The callback may be set.
NextClose ==
    \/ accepted < MaxTimerPoints /\ insert("a", "5")
    \/ SetReachable
    \/ ~closed /\ start
    \/ StartCheck
    \/ MainSetSync
    \/ CallRaised
    \/ close
    \/ CloseDatabase
    \/ TimerFire
    \/ SyncStep("timer")
    \/ Rearm
    \/ TimerDie

SpecClose == Init /\ [][NextClose]_vars

\* SpecReg: the registry.  The application registers streams with and
\* without a schema and records values of both kinds on "a" and "c", while
\* the server comes and goes and another client deletes "a".
NextReg ==
    \/ \E n \in StreamNames, sch \in Schemas : addStream(n, sch)
    \/ AddCreate
    \/ AddForce
    \/ CallRaised
    \/ \E n \in {"a", "c"}, v \in Values : insert(n, v)
    \/ SetReachable
    \/ RemoteChange

SpecReg == InitNoCallback /\ [][NextReg]_vars

\* SpecStore: the life of a store file.  A Logger is made on it, with or
\* without a credential and a callback, used and closed, again and again.
\* While it is open the application registers "a", records a number and
\* writes every configuration field and the user data; no cycle runs.
NextStore ==
    \/ \E key \in {NoKey, "k1"}, oncreate \in BOOLEAN : Open(key, oncreate)
    \/ ~closed /\ close
    \/ CloseDatabase
    \/ ~closed /\ addStream_force("a", "number")
    \/ ~closed /\ accepted < MaxTimerPoints /\ insert("a", "5")
    \/ ~closed /\ SetApikey("k2")
    \/ ~closed /\ SetServerurl("http://localhost:8000")
    \/ ~closed /\ SetLastsynctime(1)
    \/ Update
    \/ ~closed /\ SetSyncperiod(60)
    \/ ~closed /\ SetData("dict(hi=56)")

SpecStore == InitStore /\ [][NextStore]_vars

\* SpecConfig: configuration writes against the Timer's cycles.  The
\* application starts the service, writes the credential, lastsynctime and
\* syncperiod, registers "c" and records a number on "a" while the Timer
\* thread runs __runsyncer; the server comes and goes; no callback.
NextConfig ==
    \/ accepted < MaxTimerPoints /\ insert("a", "5")
    \/ start
    \/ StartCheck
    \/ MainSetSync
    \/ CallRaised
    \/ SetApikey("k2")
    \/ SetLastsynctime(0)
    \/ Update
    \/ SetSyncperiod(60)
    \/ addStream_force("c", "number")
    \/ SetReachable
    \/ TimerFire
    \/ SyncStep("timer")
    \/ Rearm
    \/ TimerDie

SpecConfig == InitNoCallback /\ [][NextConfig]_vars

\* SpecForce: streams are registered without asking the server.  The
\* application registers "a" and "c" with every schema and records values
\* of both kinds on them; the server comes and goes; no cycle runs.
NextForce ==
    \/ \E n \in {"a", "c"}, sch \in Schemas : addStream_force(n, sch)
    \/ \E n \in {"a", "c"}, v \in Values : insert(n, v)
    \/ SetReachable

SpecForce == InitNoCallback /\ [][NextForce]_vars

\* SpecTwo: two threads run cycles.  The application calls start() and
\* sync() itself while the Timer thread runs __runsyncer; numbers are
\* recorded on "a"; no callback.
NextTwo ==
    \/ accepted < MaxTimerPoints /\ insert("a", "5")
    \/ SetReachable
    \/ start
    \/ StartCheck
    \/ MainSetSync
    \/ CallRaised
    \/ SyncCall
    \/ SyncStep("main")
    \/ SyncReturn
    \/ TimerFire
    \/ SyncStep("timer")
    \/ Rearm
    \/ TimerDie

SpecTwo == InitNoCallback /\ [][NextTwo]_vars

\* SpecLive: the service once started, left to itself.  The application
\* calls start() and records a number; the server comes and goes.  A call
\* that has begun goes on, a Timer that is armed fires in the end, and its
\* thread keeps running until it is through.
NextLive ==
    \/ accepted < MaxTimerPoints /\ insert("a", "5")
    \/ SetReachable
    \/ start
    \/ StartCheck
    \/ MainSetSync
    \/ CallRaised
    \/ TimerFire
    \/ SyncStep("timer")
    \/ Rearm
    \/ TimerDie

FairLive ==
    /\ WF_vars(StartCheck)
    /\ WF_vars(MainSetSync)
    /\ WF_vars(CallRaised)
    /\ WF_vars(TimerFire)
    /\ WF_vars(SyncStep("timer"))
    /\ WF_vars(Rearm)
    /\ WF_vars(TimerDie)

SpecLive == Init /\ [][NextLive]_vars /\ FairLive

\* ------------------------------------------------------------ properties

\* the points the server has accepted
UploadedPoints ==
    UNION {{rlog[i].pts[j] : j \in 1..Len(rlog[i].pts)} : i \in 1..Len(rlog)}

\* positions <<request, index>> of the points of stream s on the server,
\* and the order in which they arrived
Arrivals(s) ==
    {<<i, j>> \in (1..Len(rlog)) \X (1..MaxPoints + 1) :
        rlog[i].stream = s /\ j <= Len(rlog[i].pts)}

ArrivedBefore(x, y) == x[1] < y[1] \/ (x[1] = y[1] /\ x[2] < y[2])

\* what the registry alone says about insert(n, v)
LocallyRejected(n, v) ==
    \/ n \notin DOMAIN streams
    \/ streams[n] = "null"
    \/ streams[n] = "number" /\ v # "5"
    \/ streams[n] = "string" /\ v # "bad"

\* C1: a point leaves the cache only if it was in an array the server
\* accepted; a point inserted between the SELECT and the DELETE of a cycle,
\* its timestamp equal to the last uploaded one included, is never deleted
\* without having been uploaded.
C1_RemovedOnlyIfUploaded ==
    \A p \in recorded : p \notin cache => p \in UploadedPoints

\* C2: when a cycle has ended without failure, every point inserted before
\* it with timestamp <= the last timestamp the cycle uploaded for its stream
\* is gone from the cache, and every point inserted during the cycle with a
\* timestamp greater than that is still in the cache.
C2_SyncRemovesUpToLast ==
    \A t \in Threads :
        (pc[t] = "done" /\ result[t] = "ok") =>
            \A p \in recorded :
                LET last == lastup[t][p.stream] IN
                /\ (last > 0 /\ p.id <= mark[t] /\ p.t <= last) => p \notin cache
                /\ (last > 0 /\ p.id > mark[t] /\ p.t > last) => p \in cache

C2_Witness ==
    /\ pc["main"] = "done" /\ result["main"] = "ok"
    /\ \E p, q \in recorded :
          /\ p.stream = q.stream
          /\ lastup["main"][p.stream] > 0
          /\ p.id <= mark["main"] /\ p.t <= lastup["main"][p.stream]
          /\ p \notin cache
          /\ q.id > mark["main"] /\ q.t > lastup["main"][p.stream]
          /\ q \in cache

\* C3: len(logger) is the number of accepted insert() calls minus the number
\* of rows the DELETE after a successful upload removed, and an insert()
\* that raises leaves len(logger) as it was.
C3_PendingCount ==
    [][/\ PendingCount' = accepted' - removed'
       /\ \A n \in StreamNames, v \in Values :
            (InsertVerdict(n, v) # "ok" /\ insert(n, v)) =>
                PendingCount' = PendingCount]_vars

C3_Witness ==
    /\ insraised
    /\ accepted = 2
    /\ removed = 1
    /\ PendingCount = 1

\* C4: insert() raises when the name is not registered and when the value
\* does not validate against the registered schema; it then writes no row
\* and leaves the registry and the metadata alone.
C4_RejectedInsert ==
    [][\A n \in StreamNames, v \in Values :
            (LocallyRejected(n, v) /\ insert(n, v)) =>
                /\ insraised'
                /\ UNCHANGED <<cache, streams, dbstreams, lastsync,
                               dblastsync>>]_vars

C4_Witness ==
    /\ insraised
    /\ cache # {}
    /\ PendingCount = accepted

\* C5: insert() sends nothing to the server and neither builds nor uses the
\* ConnectorDB handle; whether it raises is decided by the registry and the
\* value alone, whatever the state of the server and of the handle.
C5_InsertIsLocal ==
    [][\A n \in StreamNames, v \in Values :
            insert(n, v) =>
                /\ UNCHANGED <<cdb, rlog, rexists, reachable>>
                /\ insraised' = LocallyRejected(n, v)]_vars

C5_Witness ==
    /\ ~cdb
    /\ ~reachable
    /\ ~insraised
    /\ accepted > 0

\* C6: the array a cycle uploads for a stream holds exactly the rows of the
\* stream that were in the cache at the SELECT, timestamps never decreasing;
\* it goes to the server as one request; and on the server a point with a
\* smaller timestamp never comes after one with a larger timestamp, so
\* points inserted with increasing timestamps arrive in insertion order.
C6_UploadOrder ==
    /\ \A t \in Threads :
          pc[t] \in {"upload", "delete"} =>
             /\ Len(batch[t]) = Cardinality(snap[t])
             /\ {batch[t][i] : i \in 1..Len(batch[t])} = snap[t]
             /\ \A i, j \in 1..Len(batch[t]) :
                   i < j => batch[t][i].t <= batch[t][j].t
    /\ \A t \in Threads :
          pc[t] = "delete" =>
             rlog[Len(rlog)] = [stream |-> cur[t], pts |-> batch[t]]
    /\ \A s \in StreamNames :
          \A x, y \in Arrivals(s) :
             LET p == rlog[x[1]].pts[x[2]]
                 q == rlog[y[1]].pts[y[2]]
             IN  /\ (ArrivedBefore(x, y) => p.t <= q.t)
                 /\ (p.t < q.t => p.id < q.id /\ ArrivedBefore(x, y))

C6_Witness ==
    /\ pc["main"] = "delete"
    /\ Len(batch["main"]) = 2
    /\ batch["main"][1].t < batch["main"][2].t
    /\ Len(rlog) = 1

\* C7: a cycle that begins after a cycle ended well, with the server
\* reachable, every registered stream on the server, and no insert() since
\* the earlier cycle began, uploads nothing, deletes nothing and returns
\* without raising.
C7_SecondSyncIdle ==
    \A t \in Threads :
        quiet[t] = "second" =>
            /\ pc[t] \notin {"upload", "delete", "except"}
            /\ "upload" \notin did[t]
            /\ "delete" \notin did[t]
            /\ failedAt[t] = "none"
            /\ pc[t] = "done" => result[t] = "ok"

C7_Witness ==
    /\ pc["main"] = "done"
    /\ quiet["main"] = "second"
    /\ result["main"] = "ok"
    /\ Len(rlog) > 0
    /\ accepted = MaxPoints

\* C8: when building the handle or ping() fails, the cycle ends without
\* taking the lock and without a SELECT, an upload, a DELETE or a write of
\* lastsynctime: cache, registry and lastsynctime stay as they are, and with
\* no callback set sync() raises.
C8_PingFailureAborts ==
    [][\A t \in Threads :
          (failedAt'[t] \in {"connect", "ping"} /\ pc'[t] # pc[t]) =>
              /\ UNCHANGED <<cache, streams, dbstreams, lastsync, dblastsync,
                             synclock, rlog, removed>>
              /\ synclock # t
              /\ did'[t] = {}
              /\ (pc'[t] = "done" /\ ~onsyncfail) => result'[t] = "raised"]_vars

C8_Witness ==
    /\ pc["main"] = "done"
    /\ failedAt["main"] = "ping"
    /\ ~onsyncfail
    /\ result["main"] = "raised"
    /\ cache # {}

\* C9: a cycle that fails calls the callback exactly once, a cycle that
\* succeeds never calls it; sync() returns when the callback returns false,
\* raises when it returns true, and raises when no callback is set.
C9_FailureHandler ==
    \A t \in Threads :
        /\ hcalls[t] <= 1
        /\ pc[t] = "done" =>
             IF failedAt[t] = "none"
             THEN hcalls[t] = 0 /\ result[t] = "ok"
             ELSE IF onsyncfail
             THEN /\ hcalls[t] = 1
                  /\ hret[t] = "false" => result[t] = "returned"
                  /\ hret[t] = "true" => result[t] = "raised"
                  /\ hret[t] \in {"true", "false"}
             ELSE hcalls[t] = 0 /\ result[t] = "raised"

C9_Witness ==
    /\ pc["main"] = "done"
    /\ onsyncfail
    /\ failedAt["main"] = "upload"
    /\ hcalls["main"] = 1
    /\ hret["main"] = "false"
    /\ result["main"] = "returned"

\* C10: lastsynctime, in memory and in the metadata row, changes only in the
\* last step of a cycle whose ping succeeded and whose loop visited every
\* registered stream without an error; a cycle that fails, whether sync()
\* raises or the callback swallows the error, leaves both as they were.
C10_LastSyncTime ==
    [][/\ (lastsync' # lastsync \/ dblastsync' # dblastsync) =>
            \E t \in Threads :
                /\ pc[t] = "loop" /\ pc'[t] = "done"
                /\ result'[t] = "ok"
                /\ failedAt'[t] = "none"
                /\ "lock" \in did[t]
                /\ remaining[t] = {}
                /\ iterkeys[t] = DOMAIN streams
                /\ lastsync' = dblastsync'
       /\ \A t \in Threads :
            (pc'[t] # pc[t] /\ failedAt'[t] # "none") =>
                UNCHANGED <<lastsync, dblastsync>>]_vars

C10_Witness ==
    /\ pc["main"] = "done"
    /\ result["main"] = "ok"
    /\ lastsync = MaxClock
    /\ dblastsync = MaxClock
    /\ onsyncfail

\* C11: when a cycle finds a registered stream absent on the server, or the
\* upload for a stream fails, the cycle fails at that stream instead of going
\* on to the next one; from then on the cycle sends no request and deletes
\* no row, so the rows of that stream and of the streams the loop had not
\* reached stay in the cache, and the rows deleted for the streams uploaded
\* earlier in the cycle stay deleted.
C11_FailsAtStream ==
    [][\A t \in Threads :
          /\ \* the step that visits a stream which is absent
             (pc[t] = "loop" /\ cur'[t] # cur[t]
                /\ ~(reachable /\ cur'[t] \in rexists)) =>
                 /\ pc'[t] = "except"
                 /\ failedAt'[t] = "exists"
                 /\ UNCHANGED <<cache, rlog, removed>>
          /\ \* the step in which the upload fails
             (pc[t] = "upload" /\ ~(reachable /\ cur[t] \in rexists)) =>
                 (pc'[t] # pc[t] =>
                    /\ pc'[t] = "except"
                    /\ failedAt'[t] = "upload"
                    /\ UNCHANGED <<cache, rlog, removed>>)
          /\ \* every step until the failed cycle is over
             (pc[t] \in {"except", "done"}
                /\ failedAt[t] \in {"exists", "upload"}) =>
                 /\ rlog' = rlog
                 /\ removed' = removed
                 /\ cache \subseteq cache'
                 /\ cache' \cap recorded = cache \cap recorded]_vars

C11_Witness ==
    /\ pc["main"] = "done"
    /\ failedAt["main"] = "exists"
    /\ cur["main"] = "a"
    /\ reachable
    /\ lastup["main"]["b"] > 0
    /\ \E p \in recorded : p.stream = "b" /\ p \notin cache
    /\ \E p \in cache : p.stream = "a" /\ p.id <= mark["main"]

\* a Timer thread is through: it leaves __runsyncer
TimerThreadEnds == pc["timer"] = "done" /\ pc'["timer"] = "idle"

\* C12: when the Timer has fired while the service runs, the thread that
\* ran the attempt arms a new Timer for syncperiod before it ends, whether
\* sync() returned, raised for want of a callback, or raised because the
\* callback asked for it.
C12_AlwaysRearmed ==
    [][(TimerThreadEnds /\ syncthread # "None") =>
          /\ syncthread' = "armed"
          /\ timerperiod' = syncperiod
          /\ pendingtimers' = 1]_vars

\* C13: when the cycle of a Timer thread failed and the callback returned
\* false, the thread arms a new Timer for syncperiod, which is left as it
\* was, and that Timer is free to fire.
C13_SwallowedFailureRearms ==
    [][(TimerThreadEnds /\ syncthread # "None" /\ hret["timer"] = "false") =>
          /\ failedAt["timer"] # "none"
          /\ syncthread' = "armed"
          /\ timerperiod' = syncperiod
          /\ pendingtimers' = 1
          /\ pc'["timer"] = "idle"
          /\ UNCHANGED <<syncperiod, dbsyncperiod, cache, streams>>]_vars

C13_Witness ==
    /\ lastend = "returned"
    /\ onsyncfail
    /\ syncthread = "armed"
    /\ pendingtimers = 1
    /\ timerperiod = syncperiod
    /\ pc["timer"] = "idle"
    /\ cache # {}

\* the step of __setsync() that ends start()
StartArms == pc["main"] = "setsync" /\ pc'["main"] = "idle"

\* C14: once stop() has returned no Timer is set, and none is set again
\* before start() sets one, also when stop() ran while the cycle of a Timer
\* thread was in progress: that thread ends without arming a Timer.
C14_StoppedStaysStopped ==
    [][(syncthread = "None" /\ syncthread' # "None") => StartArms]_vars

\* C15: when close() has closed the store, no cycle is between its entry
\* into sync() and its end, so none reaches the store afterwards; a cycle
\* that was pinging when close() ran is no exception.
C15_NoCycleAcrossClose ==
    closed => ~Running("timer")

\* C16: a write of syncperiod puts the value in memory and in the metadata
\* row and runs no step of a cycle; when no Timer is set it sets none; when
\* one is set, the write ends by cancelling it and arming one Timer that
\* waits the new value; and every Timer that is armed once the write is
\* over waits the value of syncperiod.
C16_PeriodWrite ==
    [][/\ \A v \in Periods :
            SetSyncperiod(v) =>
                /\ syncperiod' = v
                /\ dbsyncperiod' = v
                /\ UNCHANGED <<syncthread, timers, rlog, cache, lastsync>>
                /\ pc'["timer"] = pc["timer"]
                /\ pc'["main"] =
                      IF syncthread = "None" THEN "idle" ELSE "setsync"
       /\ MainSetSync =>
                /\ syncthread' = "armed"
                /\ timerperiod' = syncperiod
                /\ pendingtimers' = 1
                /\ pc'["timer"] = pc["timer"]
                /\ UNCHANGED <<rlog, cache, lastsync, syncperiod>>
       /\ pendingtimers' <= 1
       /\ (syncthread' = "armed" /\ pc'["main"] # "setsync") =>
                timerperiod' = syncperiod']_vars

C16_Witness ==
    /\ pc["main"] = "setsync"
    /\ syncthread = "armed"
    /\ pendingtimers = 1
    /\ timerperiod = DefaultPeriod
    /\ syncperiod # DefaultPeriod
    /\ dbsyncperiod = syncperiod

\* C17: start() called while a Timer is set does not raise and returns
\* from its lock block: the Timer, its period and the number of pending
\* Timers stay as they are, and nothing else changes.
C17_StartWhileRunning ==
    [][(syncthread # "None" /\ (start \/ StartCheck)) =>
          /\ pc'["main"] = IF pc["main"] = "idle" THEN "startcheck"
                           ELSE "idle"
          /\ UNCHANGED <<prog, sched, env, cache>>]_vars

C17_Witness ==
    /\ pc["main"] = "startcheck"
    /\ syncthread = "armed"
    /\ pendingtimers = 1

\* C18: start() builds the ConnectorDB handle before anything else; when
\* that fails, start() raises, no Timer is set and start() can be called
\* again; a Timer is never set by start() without the handle.
C18_StartNeedsEndpoint ==
    [][/\ (start /\ ~cdb /\ ~reachable) =>
            /\ pc'["main"] = "raised"
            /\ UNCHANGED <<prog, sched>>
       /\ (pc["main"] = "raised" /\ pc'["main"] # "raised") =>
            /\ pc'["main"] = "idle"
            /\ UNCHANGED <<prog, sched>>
       /\ pc'["main"] \in {"startcheck", "setsync"} => cdb'
       /\ syncthread' # "None" => cdb']_vars

C18_Witness ==
    /\ pc["main"] = "raised"
    /\ ~cdb
    /\ ~reachable
    /\ syncthread = "None"
    /\ pendingtimers = 0

\* the service is on and the server answers for every registered stream
Served ==
    /\ syncthread # "None"
    /\ reachable
    /\ DOMAIN streams \subseteq rexists

\* every point an insert() wrote has been uploaded and has left the cache
AllUploaded ==
    \A p \in recorded : p \in UploadedPoints /\ p \notin cache

\* C19: if from some moment on the service is on and the server answers
\* for every registered stream, then, Timers firing in the end, every point
\* an insert() wrote is uploaded and leaves the cache, whatever became of
\* the cycles before that moment.
C19_EventuallyUploaded ==
    <>[]Served => []<>AllUploaded

\* C20: addStream(name, schema).  When the server has the stream, the schema
\* the server holds is what the registry receives, whatever schema the
\* caller gave.  When it has not and a schema is given, the stream is made
\* on the server first and the registry is written in a later step.  When
\* it has not and no schema is given, the call raises and the registry, in
\* memory and in the store, stays as it is.  The registry changes in no
\* other step.
C20_Register ==
    [][/\ \A n \in StreamNames, sch \in Schemas :
            addStream(n, sch) =>
                /\ UNCHANGED <<streams, dbstreams, rexists, rschema>>
                /\ (reachable /\ n \in rexists) =>
                      /\ pc'["main"] = "addforce"
                      /\ adding'.name = n
                      /\ adding'.fetched = rschema[n]
                /\ ((cdb \/ reachable) /\ ~(reachable /\ n \in rexists)) =>
                      pc'["main"] = IF sch = "null" THEN "raised"
                                    ELSE "create"
       /\ AddCreate =>
                /\ UNCHANGED <<streams, dbstreams>>
                /\ pc'["main"] = "addforce" =>
                      /\ adding.name \notin rexists
                      /\ adding.name \in rexists'
                      /\ rschema'[adding.name] = adding.schema
                      /\ adding'.fetched = adding.schema
                /\ pc'["main"] # "addforce" =>
                      /\ pc'["main"] = "raised"
                      /\ UNCHANGED <<rexists, rschema>>
       /\ AddForce =>
                /\ adding.name \in DOMAIN streams'
                /\ streams'[adding.name] = adding.fetched
                /\ streams' = LoadStreams(dbstreams')
                /\ \A n \in DOMAIN streams \ {adding.name} :
                      streams'[n] = streams[n]
       /\ (pc["main"] = "raised" \/ pc'["main"] = "raised") =>
                UNCHANGED <<streams, dbstreams>>
       /\ (streams' # streams \/ dbstreams' # dbstreams) =>
                pc["main"] = "addforce"]_vars

C20_Witness ==
    /\ pc["main"] = "idle"
    /\ adding.name = "c"
    /\ adding.schema = "string"
    /\ ~adding.created
    /\ "c" \in DOMAIN streams
    /\ streams["c"] = "number"
    /\ streams = LoadStreams(dbstreams)
    /\ rschema["c"] = "number"

\* a step of a sync cycle
CycleStep ==
    \E t \in Threads :
       \/ pc'[t] # pc[t] /\ (Running(t) \/ pc'[t] \in {"ping", "except"})
       \/ pc[t] = "loop" /\ remaining'[t] # remaining[t]

\* C30: a step of a sync cycle adds no row to the cache, and a row it
\* removes is a row of the stream whose array the cycle has just uploaded;
\* rows of other streams stay.  The registry, in memory and in the store,
\* and every configuration field but lastsynctime are as before the step.
C30_CycleFrame ==
    [][CycleStep =>
          /\ cache' \subseteq cache
          /\ \A r \in cache \ cache' :
                \E t \in Threads :
                   /\ pc[t] = "delete"
                   /\ "upload" \in did[t]
                   /\ r.stream = cur[t]
          /\ UNCHANGED <<streams, dbstreams, syncperiod, dbsyncperiod,
                         apikey, dbapikey, serverurl, dbserverurl,
                         dbuserdata, metarows>>]_vars

C30_Witness ==
    /\ pc["main"] = "loop"
    /\ "delete" \in did["main"]
    /\ removed > 0
    /\ \E r \in cache :
          /\ r.stream # cur["main"]
          /\ r.t <= lastup["main"][cur["main"]]
\* C28: at most one Timer is started and neither fired nor cancelled, and
\* it is the one self.syncthread names.  A Timer is armed by __setsync()
\* only, at the end of start(), of a syncperiod write or of __runsyncer;
\* that step needs the lock and leaves exactly one Timer pending, whatever
\* was pending before.
C28_OneTimer ==
    [][/\ pendingtimers' <= 1
       /\ pendingtimers' = 1 <=> syncthread' = "armed"
       /\ (MainSetSync \/ Rearm) =>
             /\ synclock = "free"
             /\ syncthread' = "armed"
             /\ pendingtimers' = 1
       /\ (/\ syncthread' = "armed"
           /\ <<syncthread, timers>>' # <<syncthread, timers>>)
             => (MainSetSync \/ Rearm)]_vars

C28_Witness ==
    /\ syncthread = "armed"
    /\ pendingtimers = 1
    /\ timerperiod # DefaultPeriod
    /\ lastend \in {"ok", "returned"}
    /\ pc["main"] = "idle"
\* the thread is inside the `with self.synclock` block of sync()
Draining(t) == pc[t] \in {"loop", "upload", "delete"}

\* C26: two cycles are never both inside the with block of sync(), whether
\* the Timer or the application started them, and the lock is held exactly
\* by the cycle that is inside; an insert() that returns leaves the lock as
\* it was, held or free.
C26_DrainExclusive ==
    [][/\ ~(Draining("main")' /\ Draining("timer")')
       /\ \A t \in Threads : Draining(t)' <=> synclock' = t
       /\ accepted' # accepted =>
             /\ synclock' = synclock
             /\ \A t \in Threads : pc'[t] = pc[t]]_vars

\* a row of the stream being drained that arrived after the cycle's SELECT,
\* while the other thread waits for the lock
C26_Witness ==
    /\ pc["timer"] = "loop"
    /\ "read" \in did["timer"]
    /\ pc["main"] = "lock"
    /\ synclock = "timer"
    /\ \E r \in cache : r.stream = cur["timer"] /\ r \notin snap["timer"]

\* requests that carried the point
UploadsOf(point) ==
    {<<i, j>> \in (1..Len(rlog)) \X (1..MaxPoints + 1) :
        j <= Len(rlog[i].pts) /\ rlog[i].pts[j] = point}

\* C29: no point an insert() wrote is carried by more than one request the
\* server accepted, whichever threads ran the cycles: once insert_array
\* has returned, the rows it sent are deleted before the lock is released,
\* so no other SELECT sees them.
C29_UploadedOnce ==
    \A point \in recorded : Cardinality(UploadsOf(point)) <= 1

C29_Witness ==
    /\ Len(rlog) = 1
    /\ cache = {}
    /\ result["main"] = "ok"
    /\ lastend = "ok"
    /\ removed = 1
\* C27: the lock is held only by a thread that is inside the with block of
\* sync().  A cycle that has reached the except clause, where the callback
\* runs, or has returned or raised, holds it no more, whatever step failed;
\* and a thread at start(), stop(), close(), a syncperiod write or
\* __setsync(), which all take the lock, does not hold it already.
C27_LockReleased ==
    /\ \A t \in Threads : synclock = t => Draining(t)
    /\ (\A t \in Threads : ~Draining(t)) => synclock = "free"

C27_Witness ==
    /\ pc["timer"] = "done"
    /\ "lock" \in did["timer"]
    /\ failedAt["timer"] \in {"exists", "upload"}
    /\ hcalls["timer"] = 1
    /\ synclock = "free"
\* C21: addStream_force(name, schema) leaves the entry of name equal to
\* schema, in self.streams and in the streams table, whatever was there;
\* the entries of other names and the cache are as before, the handle to
\* the server is not built and the server sees no request.  No other step
\* changes the registry, so each name has the schema of its last
\* registration.
C21_ForceRegisters ==
    [][/\ \A n \in StreamNames, sch \in Schemas :
            addStream_force(n, sch) =>
                /\ DOMAIN streams' = DOMAIN streams \cup {n}
                /\ DOMAIN dbstreams' = DOMAIN streams'
                /\ streams'[n] = sch
                /\ json_loads(dbstreams'[n]) = sch
                /\ \A m \in DOMAIN streams \ {n} :
                      /\ streams'[m] = streams[m]
                      /\ dbstreams'[m] = dbstreams[m]
                /\ UNCHANGED <<cache, cdb, reachable, rexists, rschema, rlog>>
       /\ (streams' # streams \/ dbstreams' # dbstreams) =>
             \E n \in StreamNames, sch \in Schemas :
                addStream_force(n, sch)]_vars

C21_Witness ==
    /\ ~cdb
    /\ rlog = << >>
    /\ "c" \in DOMAIN streams
    /\ streams["a"] = "string"
    /\ dbstreams["a"] = json_dumps("string")
    /\ \E r \in cache : r.stream = "a" /\ r.d = "5"

\* C24: insert() on a stream registered with the schema None accepts the
\* value, whatever it is, and adds one row to the cache.
C24_NullSchemaAccepts ==
    [][\A n \in StreamNames, v \in Values :
          (n \in DOMAIN streams /\ streams[n] = "null" /\ insert(n, v)) =>
              /\ ~insraised'
              /\ accepted' = accepted + 1
              /\ Cardinality(cache') = Cardinality(cache) + 1]_vars
\* a Logger is made on the store
Opens == closed /\ ~closed'

\* what the first open leaves in the store and does with the callback
FirstOpen ==
    (Opens /\ metarows = 0) =>
        /\ dbapikey' = (IF ctor'.apikey = NoKey THEN "" ELSE ctor'.apikey)
        /\ dbserverurl' = CONNECTORDB_URL
        /\ dblastsync' = 0
        /\ dbsyncperiod' = DefaultPeriod
        /\ dbuserdata' = "{}"
        /\ createcalls' = (IF ctor'.on_create THEN 1 ELSE 0)

\* C22 as stated: the metadata table has one row whenever a Logger is open
\* on the store; the first open writes the default row and calls on_create
\* once; a later open adds no row, leaves every stored field as it is and
\* does not call on_create.
C22_LaterOpenKeepsAll ==
    [][/\ ~closed' => metarows' = 1
       /\ FirstOpen
       /\ (Opens /\ metarows = 1) =>
             UNCHANGED <<dbapikey, dbserverurl, dblastsync, dbsyncperiod,
                         dbuserdata, createcalls>>
       /\ ~Opens => UNCHANGED createcalls]_vars

\* C22, amended: as above, except that a later open that is given a
\* credential stores it in place of the stored one; every other field is
\* kept, and so is the credential when none is given.
C22_OneRow ==
    [][/\ ~closed' => metarows' = 1
       /\ FirstOpen
       /\ (Opens /\ metarows = 1) =>
             /\ UNCHANGED <<dbserverurl, dblastsync, dbsyncperiod,
                            dbuserdata, createcalls>>
             /\ dbapikey' =
                   (IF ctor'.apikey = NoKey THEN dbapikey ELSE ctor'.apikey)
       /\ ~Opens => UNCHANGED createcalls]_vars

\* a second Logger on a store whose fields were all written, made with a
\* callback and without a credential
C22_Witness ==
    /\ ~closed
    /\ atclose # NotClosed
    /\ ctor = [apikey |-> NoKey, on_create |-> TRUE]
    /\ createcalls = 0
    /\ metarows = 1
    /\ dbapikey = "k2"
    /\ dbsyncperiod = 60
    /\ dbuserdata # "{}"

\* C23: a Logger made on a store that was closed holds what the Logger
\* before it held when it closed the store: the registry with its schemas,
\* the rows of the cache, serverurl, lastsynctime, syncperiod, the user
\* data, and the credential unless the new Logger is given one.  Closing
\* changes nothing in the store.
C23_Reopen ==
    [][/\ (Opens /\ metarows = 1) =>
             /\ streams' = atclose.streams
             /\ cache' = atclose.cache
             /\ serverurl' = atclose.serverurl
             /\ lastsync' = atclose.lastsynctime
             /\ syncperiod' = atclose.syncperiod
             /\ data' = atclose.data
             /\ apikey' = (IF ctor'.apikey = NoKey THEN atclose.apikey
                           ELSE ctor'.apikey)
       /\ (~closed /\ closed') =>
             UNCHANGED <<dbstreams, cache, dbapikey, dbserverurl, dblastsync,
                         dbsyncperiod, dbuserdata, metarows>>]_vars

C23_Witness ==
    /\ ~closed
    /\ pc["main"] = "idle"
    /\ Held = atclose
    /\ "a" \in DOMAIN streams
    /\ cache # {}
    /\ apikey = "k2"
    /\ serverurl # CONNECTORDB_URL
    /\ lastsync = 1
    /\ syncperiod = 60
    /\ data = "dict(hi=56)"
\* C25: whenever the application is in no call and no cycle is running,
\* the credential, the server URL, lastsynctime, syncperiod and the
\* registry in memory are what the metadata row and the streams table
\* hold.
C25_MemoryMatchesStore ==
    (pc["main"] = "idle" /\ pc["timer"] = "idle") =>
        /\ apikey = dbapikey
        /\ serverurl = dbserverurl
        /\ lastsync = dblastsync
        /\ syncperiod = dbsyncperiod
        /\ streams = LoadStreams(dbstreams)
====
